---- MODULE Spec2Model ----
(***************************************************************************)
(* Verification model of the Emergence world-generation core.             *)
(*                                                                         *)
(*   asm-lib/src/generation.rs          GenerationPlugin, GenerationConfig,*)
(*                                      generate_terrain, generate_entities*)
(*   emergence_lib/src/terrain/mod.rs   MapGeometry, TerrainType           *)
(*   tools/ci/src/asset_loading.rs      the asset-loading check            *)
(*                                                                         *)
(* Four specifications share the module, one per subsystem:               *)
(*   Spec          the generation plugin (startup stage of the app)        *)
(*   SpecGeometry  MapGeometry::new and its accessors, on u32              *)
(*   SpecTerrain   TerrainType::choose_random                              *)
(*   SpecAssets    load_assets / check_if_assets_loaded                    *)
(* Each specification leaves the other subsystems' variables untouched.    *)
(***************************************************************************)
EXTENDS Integers, Sequences, FiniteSets, TLC

VARIABLES
    \* ---- generation plugin (generation.rs) ----
    consts,       \* the crate::config constants MAP_SIZE, N_ANT, N_PLANT, N_FUNGI
    phase,        \* "build" | "startup" | "panicked"
    config,       \* the GenerationConfig resource, or NoConfig
    started,      \* startup systems that have begun
    finished,     \* startup systems that have returned
    requests,     \* creation requests handed to Commands, in emission order
    drawn,        \* entity_positions as collected from choose_multiple
    \* ---- MapGeometry (terrain/mod.rs) ----
    radius,       \* the u32 argument of MapGeometry::new
    overflowChecks, \* TRUE: overflow panics (debug); FALSE: it wraps (release)
    geometry,     \* the MapGeometry value, NoGeometry or GeometryPanic
    tilePos,      \* grid coordinate of an axial coordinate offset by center()
    \* ---- TerrainType::choose_random (terrain/mod.rs) ----
    weights,      \* the HashMap<TerrainType, f32>, Absent where no entry
    chosen,       \* the Result of choose_random, or NoResult
    \* ---- asset loading check (asset_loading.rs) ----
    appState,     \* "startup" | "running" | "exited" | "panicked"
    font_handles, \* AssetHandles.font_handles: name -> recorded LoadState
    serverState,  \* what AssetServer::get_load_state answers, per font
    elapsed,      \* TimeOut.start.elapsed(), in seconds
    loadedInTime  \* the server answered Loaded for every font at a frame
                  \* before the timeout, and has done so ever since

genVars   == <<consts, phase, config, started, finished, requests, drawn>>
geoVars   == <<radius, overflowChecks, geometry, tilePos>>
terVars   == <<weights, chosen>>
assetVars == <<appState, font_handles, serverState, elapsed, loadedInTime>>
vars      == <<genVars, geoVars, terVars, assetVars>>

(***************************************************************************)
(* Bounds of the model.                                                    *)
(***************************************************************************)
MaxRadius      == 2   \* MAP_SIZE ranges over -MaxNegRadius .. MaxRadius
MaxNegRadius   == 1
MaxEntities    == 2   \* N_ANT + N_PLANT + N_FUNGI ranges over 0 .. MaxEntities

(***************************************************************************)
(* Generation: positions and the hexagon.                                  *)
(***************************************************************************)
Abs(x) == IF x < 0 THEN 0 - x ELSE x

Min(a, b) == IF a < b THEN a ELSE b

Position(a, b) == [alpha |-> a, beta |-> b]

\* Hex-grid metric in axial terms.
HexDistance(p, q) ==
    LET da == p.alpha - q.alpha
        db == p.beta - q.beta
    IN  (Abs(da) + Abs(db) + Abs(da + db)) \div 2

HexagonSet(center, r) ==
    { p \in [alpha : (center.alpha - r)..(center.alpha + r),
             beta  : (center.beta - r)..(center.beta + r)] :
        HexDistance(p, center) <= r }

\* Position::hexagon(center, radius): every position within `radius` of
\* `center`, in a fixed order (alpha-major, then beta).
Hexagon(center, r) ==
    LET S      == HexagonSet(center, r)
        Key(p) == (p.alpha - center.alpha + r) * (2 * r + 1)
                  + (p.beta - center.beta + r)
    IN  [i \in 1..Cardinality(S) |->
            CHOOSE p \in S : Cardinality({q \in S : Key(q) < Key(p)}) = i - 1]

Center == Position(0, 0)

Range(s) == { s[i] : i \in 1..Len(s) }

(***************************************************************************)
(* Generation: GenerationConfig.                                           *)
(***************************************************************************)
NoConfig == [map_size |-> 0, n_ant |-> 0, n_plant |-> 0, n_fungi |-> 0,
             present |-> FALSE]

MapSizes == (0 - MaxNegRadius)..MaxRadius

ConstsSet ==
    { c \in [MAP_SIZE : MapSizes, N_ANT : 0..MaxEntities,
             N_PLANT : 0..MaxEntities, N_FUNGI : 0..MaxEntities] :
        c.N_ANT + c.N_PLANT + c.N_FUNGI <= MaxEntities }

\* The condition of the assert! in GenerationConfig::new.
NewAssertion(c) ==
    (c.N_ANT + c.N_PLANT + c.N_FUNGI) <= (c.MAP_SIZE * c.MAP_SIZE)

\* GenerationPlugin::build, first step: app.add_resource(GenerationConfig::new()).
GenerationConfigNew ==
    /\ phase = "build"
    /\ config = NoConfig
    /\ IF NewAssertion(consts)
         THEN /\ config' = [map_size |-> consts.MAP_SIZE,
                            n_ant    |-> consts.N_ANT,
                            n_plant  |-> consts.N_PLANT,
                            n_fungi  |-> consts.N_FUNGI,
                            present  |-> TRUE]
              /\ phase' = "startup"
         ELSE /\ config' = config
              /\ phase' = "panicked"
    /\ UNCHANGED <<consts, started, finished, requests, drawn>>
    /\ UNCHANGED <<geoVars, terVars, assetVars>>

(***************************************************************************)
(* Generation: the startup stage.                                          *)
(***************************************************************************)
StartupSystemsSwapped == <<"generate_entities", "generate_terrain">>

\* The startup systems in the order GenerationPlugin::build registers them.
StartupSystems == <<"generate_terrain", "generate_entities">>

\* The resources a system takes immutably (Res) and mutably (ResMut), from
\* its parameter list. Commands is a per-system buffer and orders nothing.
SystemAccess(s) ==
    CASE s = "generate_terrain" ->
            [reads  |-> {"GenerationConfig", "AssetServer"},
             writes |-> {"Assets<ColorMaterial>"}]
      [] s = "generate_entities" ->
            [reads  |-> {"GenerationConfig", "AssetServer"},
             writes |-> {"Assets<ColorMaterial>"}]

Conflicts(s, t) ==
    \/ SystemAccess(s).writes \cap
          (SystemAccess(t).reads \cup SystemAccess(t).writes) # {}
    \/ SystemAccess(t).writes \cap SystemAccess(s).reads # {}

\* The stage's executor starts a system once every system registered before
\* it whose resource access conflicts with its own has returned.
CanStart(s) ==
    /\ phase = "startup"
    /\ s \notin started
    /\ \E i \in 1..Len(StartupSystems) :
          /\ StartupSystems[i] = s
          /\ \A j \in 1..(i - 1) :
                Conflicts(StartupSystems[j], s) => StartupSystems[j] \in finished

NoTerrain == "None"

TileRequest(p) ==
    [category |-> "Tile", position |-> p, terrain_type |-> NoTerrain]

EntityRequest(cat, p) ==
    [category |-> cat, position |-> p, terrain_type |-> NoTerrain]

\* fn generate_terrain
GenerateTerrain ==
    /\ CanStart("generate_terrain")
    /\ started' = started \cup {"generate_terrain"}
    /\ IF config.map_size > 0
         THEN LET positions == Hexagon(Center, config.map_size)
              IN  /\ requests' = requests \o
                        [i \in 1..Len(positions) |-> TileRequest(positions[i])]
                  /\ finished' = finished \cup {"generate_terrain"}
                  /\ phase' = phase
         ELSE \* assert!(map_size > 0) fails
              /\ phase' = "panicked"
              /\ UNCHANGED <<requests, finished>>
    /\ UNCHANGED <<consts, config, drawn>>
    /\ UNCHANGED <<geoVars, terVars, assetVars>>

ChooseMultipleWithRepeats(slice, amount) ==
    LET k == Min(amount, Len(slice))
    IN  { [i \in 1..k |-> slice[f[i]]] : f \in [1..k -> 1..Len(slice)] }

\* SliceRandom::choose_multiple(rng, amount): min(amount, len) elements of the
\* slice, without repetition, in any order the generator may produce.
ChooseMultiple(slice, amount) ==
    LET k == Min(amount, Len(slice))
    IN  { [i \in 1..k |-> slice[f[i]]] :
            f \in { g \in [1..k -> 1..Len(slice)] :
                      \A i, j \in 1..k : i # j => g[i] # g[j] } }

SplitOffFront(v, n) ==
    [rest |-> SubSeq(v, n + 1, Len(v)), tail |-> SubSeq(v, 1, n)]

\* let positions = v.split_off(v.len() - n): `tail` is what is returned,
\* `rest` what is left in v.
SplitOff(v, n) ==
    [rest |-> SubSeq(v, 1, Len(v) - n),
     tail |-> SubSeq(v, Len(v) - n + 1, Len(v))]

Spawn(cat, positions) ==
    [i \in 1..Len(positions) |-> EntityRequest(cat, positions[i])]

\* fn generate_entities
GenerateEntities ==
    /\ CanStart("generate_entities")
    /\ started' = started \cup {"generate_entities"}
    /\ LET n_entities == config.n_ant + config.n_plant + config.n_fungi
           possible_positions == Hexagon(Center, config.map_size)
       IN  \E entity_positions \in ChooseMultiple(possible_positions, n_entities) :
              /\ drawn' = entity_positions
              /\ IF Len(entity_positions) < n_entities
                   THEN \* len() - n underflows, or split_off is out of range
                        /\ phase' = "panicked"
                        /\ UNCHANGED <<requests, finished>>
                   ELSE LET ant   == SplitOff(entity_positions, config.n_ant)
                            plant == SplitOff(ant.rest, config.n_plant)
                            fungi == SplitOff(plant.rest, config.n_fungi)
                        IN  /\ requests' = requests
                                  \o Spawn("Ant", ant.tail)
                                  \o Spawn("Plant", plant.tail)
                                  \o Spawn("Fungi", fungi.tail)
                            /\ finished' = finished \cup {"generate_entities"}
                            /\ phase' = phase
    /\ UNCHANGED <<consts, config>>
    /\ UNCHANGED <<geoVars, terVars, assetVars>>

(***************************************************************************)
(* Idle values of each subsystem, for the specifications that do not run   *)
(* it.                                                                     *)
(***************************************************************************)
GenIdle ==
    /\ consts = [MAP_SIZE |-> 1, N_ANT |-> 0, N_PLANT |-> 0, N_FUNGI |-> 0]
    /\ phase = "idle"
    /\ config = NoConfig
    /\ started = {}
    /\ finished = {}
    /\ requests = <<>>
    /\ drawn = <<>>

GenInit ==
    /\ consts \in ConstsSet
    /\ phase = "build"
    /\ config = NoConfig
    /\ started = {}
    /\ finished = {}
    /\ requests = <<>>
    /\ drawn = <<>>

GenNext ==
    \/ GenerationConfigNew
    \/ GenerateTerrain
    \/ GenerateEntities

(***************************************************************************)
(* MapGeometry (terrain/mod.rs). A u32 is held as two 16-bit limbs, so     *)
(* that every u32 value and every carry stays a small integer.             *)
(***************************************************************************)
MaxGeoRadius == 2   \* small radii 0 .. MaxGeoRadius
EdgeSpan     == 2   \* radii within EdgeSpan of a limb boundary

LimbBase == 2 ^ 16

U32(h, l) == [hi |-> h, lo |-> l]

\* An exact (unbounded-width) value: a u32 with the carry out of bit 31.
Wide(c, h, l) == [carry |-> c, hi |-> h, lo |-> l]

Widen(x) == Wide(0, x.hi, x.lo)

Truncate(w) == U32(w.hi, w.lo)

\* x + 1, exactly.
ExactSucc(x) ==
    LET l == x.lo + 1
        h == x.hi + (l \div LimbBase)
    IN  Wide(h \div LimbBase, h % LimbBase, l % LimbBase)

\* 2 * x, exactly.
ExactDouble(x) ==
    LET l == 2 * x.lo
        h == 2 * x.hi + (l \div LimbBase)
    IN  Wide(h \div LimbBase, h % LimbBase, l % LimbBase)

\* u32 arithmetic: the wrapped value and whether the operation overflowed.
U32Succ(x) ==
    [value |-> Truncate(ExactSucc(x)), overflow |-> ExactSucc(x).carry # 0]

U32Double(x) ==
    [value |-> Truncate(ExactDouble(x)), overflow |-> ExactDouble(x).carry # 0]

\* radius + 1
RadiusPlusOne(r) == U32Succ(r)

\* 2 * radius + 1
DoublePlusOne(r) ==
    LET d == U32Double(r)
        s == U32Succ(d.value)
    IN  [value |-> s.value, overflow |-> d.overflow \/ s.overflow]

NoGeometry ==
    [state |-> "none", radius |-> U32(0, 0),
     center |-> [x |-> U32(0, 0), y |-> U32(0, 0)],
     size |-> [x |-> U32(0, 0), y |-> U32(0, 0)]]

GeometryPanic == [NoGeometry EXCEPT !.state = "panic"]

\* MapGeometry::new(radius). With overflow checks on, an overflowing
\* operation panics; with them off, it wraps.
MapGeometryNewValue(r, checks) ==
    LET c == RadiusPlusOne(r)
        s == DoublePlusOne(r)
    IN  IF checks /\ (c.overflow \/ s.overflow)
          THEN GeometryPanic
          ELSE [state  |-> "value",
                radius |-> r,
                center |-> [x |-> c.value, y |-> c.value],
                size   |-> [x |-> s.value, y |-> s.value]]

\* MapGeometry::diameter
Diameter(g) == DoublePlusOne(g.radius)

\* MapGeometry::size
Size(g) == g.size

\* MapGeometry::center
GeometryCenter(g) == g.center

\* pub const MAP_RADIUS, the radius of MapGeometry::default()
MAP_RADIUS == 10

GeoRadii ==
    { U32(0, l) : l \in 0..MaxGeoRadius }
    \cup { U32(0, MAP_RADIUS) }
    \cup { U32(h, l) : h \in {LimbBase \div 2 - 1, LimbBase \div 2, LimbBase - 1},
                       l \in (0..EdgeSpan) \cup ((LimbBase - 1 - EdgeSpan)..(LimbBase - 1)) }

NoTilePos == [x |-> 0 - 1, y |-> 0 - 1, set |-> FALSE]

\* The radius as a plain integer, for the radii small enough to enumerate.
IsSmall(r) == r.hi = 0 /\ r.lo <= MaxGeoRadius

MapGeometryNew ==
    /\ geometry.state = "none"
    /\ geometry' = MapGeometryNewValue(radius, overflowChecks)
    /\ UNCHANGED <<radius, overflowChecks, tilePos>>
    /\ UNCHANGED <<genVars, terVars, assetVars>>

\* An axial coordinate of the map, offset by center() into grid space.
OffsetByCenter ==
    /\ geometry.state = "value"
    /\ IsSmall(geometry.radius)
    /\ ~tilePos.set
    /\ \E p \in HexagonSet(Center, geometry.radius.lo) :
          tilePos' = [x |-> GeometryCenter(geometry).x.lo + p.alpha,
                      y |-> GeometryCenter(geometry).y.lo + p.beta,
                      set |-> TRUE]
    /\ UNCHANGED <<radius, overflowChecks, geometry>>
    /\ UNCHANGED <<genVars, terVars, assetVars>>

GeoIdle ==
    /\ radius = U32(0, 0)
    /\ overflowChecks = TRUE
    /\ geometry = NoGeometry
    /\ tilePos = NoTilePos

GeoInit ==
    /\ radius \in GeoRadii
    /\ overflowChecks \in BOOLEAN
    /\ geometry = NoGeometry
    /\ tilePos = NoTilePos

GeoNext ==
    \/ MapGeometryNew
    \/ OffsetByCenter

(***************************************************************************)
(* TerrainType::choose_random (terrain/mod.rs). Weights are f32 in the     *)
(* code; the model draws them from the integers -1 .. MaxWeight, where -1  *)
(* stands for the weights WeightedIndex rejects as invalid.                *)
(***************************************************************************)
MaxWeight == 2

\* TerrainType::variants(), in declaration order.
Variants == <<"Plain", "Impassable", "High">>

TerrainTypes == Range(Variants)

WeightValues == (0 - 1)..MaxWeight

\* Every HashMap<TerrainType, f32>: a function on some of the variants.
WeightTables == UNION { [D -> WeightValues] : D \in SUBSET TerrainTypes }

WeightOfDefaultOne(w, t) == IF t \in DOMAIN w THEN w[t] ELSE 1

\* weights.get(terrain_type).copied().unwrap_or_default()
WeightOf(w, t) == IF t \in DOMAIN w THEN w[t] ELSE 0

RECURSIVE PrefixSum(_, _)
PrefixSum(ws, n) == IF n = 0 THEN 0 ELSE PrefixSum(ws, n - 1) + ws[n]

\* WeightedIndex::cumulative_weights: the running totals before each item
\* but the first.
CumulativeWeights(ws) == [i \in 1..(Len(ws) - 1) |-> PrefixSum(ws, i)]

\* WeightedIndex::sample: the binary search for the first cumulative weight
\* above the drawn weight x (1-based; Len(cum) + 1 when there is none).
SampleIndex(cum, x) ==
    IF \E i \in 1..Len(cum) : cum[i] > x
      THEN CHOOSE i \in 1..Len(cum) :
              cum[i] > x /\ \A j \in 1..(i - 1) : ~(cum[j] > x)
      ELSE Len(cum) + 1

Ok(v)  == [ok |-> TRUE, value |-> v]

Err(e) == [ok |-> FALSE, value |-> e]

NoResult == Err("none")

\* Every Result choose_random can return for the table w, over the draws of
\* the generator.
ChooseRandomResults(w) ==
    LET ws    == [i \in 1..Len(Variants) |-> WeightOf(w, Variants[i])]
        total == PrefixSum(ws, Len(ws))
    IN  IF \E i \in 1..Len(ws) : ~(ws[i] >= 0)
          THEN { Err("InvalidWeight") }
          ELSE IF total = 0
                 THEN { Err("AllWeightsZero") }
                 ELSE { Ok(Variants[SampleIndex(CumulativeWeights(ws), x)]) :
                          x \in 0..(total - 1) }

ChooseRandom ==
    /\ chosen = NoResult
    /\ chosen' \in ChooseRandomResults(weights)
    /\ UNCHANGED weights
    /\ UNCHANGED <<genVars, geoVars, assetVars>>

TerIdle ==
    /\ weights = <<>>
    /\ chosen = NoResult

TerInit ==
    /\ weights \in WeightTables
    /\ chosen = NoResult

TerNext == ChooseRandom

(***************************************************************************)
(* The asset-loading check (asset_loading.rs).                             *)
(***************************************************************************)
TimeOutMax == 10    \* TimeOut.max, in seconds
MaxElapsed == 11    \* the clock is followed up to MaxElapsed seconds

\* all_fonts in load_assets
Fonts == {"fonts/FiraSans-Bold.ttf"}

LoadStates == {"NotLoaded", "Loading", "Loaded", "Failed"}

\* AssetHandles::all_loaded
AllLoaded(handles) == \A f \in DOMAIN handles : handles[f] = "Loaded"

\* TimeOut::timed_out
TimedOut == elapsed > TimeOutMax

\* fn load_assets: asset_server.load starts the load of each font and the
\* handle is recorded as NotLoaded.
LoadAssets ==
    /\ appState = "startup"
    /\ font_handles' = [f \in Fonts |-> "NotLoaded"]
    /\ appState' = "running"
    /\ UNCHANGED <<serverState, elapsed, loadedInTime>>
    /\ UNCHANGED <<genVars, geoVars, terVars>>

\* The asset server's own progress on one font.
ServerProgress ==
    /\ appState = "running"
    /\ \E f \in Fonts :
          \E next \in LoadStates :
             /\ \/ serverState[f] = "NotLoaded" /\ next = "Loading"
                \/ serverState[f] = "Loading" /\ next \in {"Loaded", "Failed"}
             /\ serverState' = [serverState EXCEPT ![f] = next]
    /\ UNCHANGED <<appState, font_handles, elapsed, loadedInTime>>
    /\ UNCHANGED <<genVars, geoVars, terVars>>

\* Time passing between two frames.
Tick ==
    /\ appState = "running"
    /\ elapsed < MaxElapsed
    /\ elapsed' = elapsed + 1
    /\ UNCHANGED <<appState, font_handles, serverState, loadedInTime>>
    /\ UNCHANGED <<genVars, geoVars, terVars>>

\* The loop over font_handles.values_mut() of check_if_assets_loaded.
Refresh(handles, server) ==
    [f \in DOMAIN handles |->
        IF handles[f] = "NotLoaded" THEN server[f] ELSE handles[f]]

\* fn check_if_assets_loaded, once per frame.
CheckIfAssetsLoaded ==
    /\ appState = "running"
    /\ font_handles' = Refresh(font_handles, serverState)
    /\ appState' = IF AllLoaded(font_handles') THEN "exited"
                   ELSE IF TimedOut THEN "panicked"
                   ELSE "running"
    /\ loadedInTime' =
          (loadedInTime \/ (~TimedOut /\ \A f \in Fonts : serverState[f] = "Loaded"))
    /\ UNCHANGED <<serverState, elapsed>>
    /\ UNCHANGED <<genVars, geoVars, terVars>>

AssetIdle ==
    /\ appState = "idle"
    /\ font_handles = <<>>
    /\ serverState = [f \in Fonts |-> "NotLoaded"]
    /\ elapsed = 0
    /\ loadedInTime = FALSE

AssetInit ==
    /\ appState = "startup"
    /\ font_handles = <<>>
    /\ serverState = [f \in Fonts |-> "NotLoaded"]
    /\ elapsed = 0
    /\ loadedInTime = FALSE

AssetNext ==
    \/ LoadAssets
    \/ ServerProgress
    \/ Tick
    \/ CheckIfAssetsLoaded

(***************************************************************************)
(* The specifications.                                                     *)
(***************************************************************************)
Init == GenInit /\ GeoIdle /\ TerIdle /\ AssetIdle

Next == GenNext

Spec == Init /\ [][Next]_vars

InitGeometry == GenIdle /\ GeoInit /\ TerIdle /\ AssetIdle

NextGeometry == GeoNext

SpecGeometry == InitGeometry /\ [][NextGeometry]_vars

InitTerrain == GenIdle /\ GeoIdle /\ TerInit /\ AssetIdle

NextTerrain == TerNext

SpecTerrain == InitTerrain /\ [][NextTerrain]_vars

InitAssets == GenIdle /\ GeoIdle /\ TerIdle /\ AssetInit

NextAssets == AssetNext

SpecAssets == InitAssets /\ [][NextAssets]_vars

(***************************************************************************)
(* Properties of the generation plugin (Spec).                             *)
(***************************************************************************)
\* Tile count of the filled hexagon of radius r.
HexCount(r) == 3 * r * r + 3 * r + 1

Total(c) == c.N_ANT + c.N_PLANT + c.N_FUNGI

\* The positions of the requests of one category, in emission order.
PositionsOf(cat) ==
    LET sel == SelectSeq(requests, LAMBDA q : q.category = cat)
    IN  [i \in 1..Len(sel) |-> sel[i].position]

EntityRequests == SelectSeq(requests, LAMBDA q : q.category # "Tile")

EntitiesDone == "generate_entities" \in finished

\* C1: GenerationConfig construction succeeds whenever the map radius is
\* positive and the entity total is at most the tile count 3r^2 + 3r + 1 of
\* the hexagon, and fails whenever the entity total exceeds that count.
C1_AcceptedIffEntitiesFitHexagon ==
    phase # "build" =>
        /\ (consts.MAP_SIZE > 0 /\ Total(consts) <= HexCount(consts.MAP_SIZE))
              => config.present
        /\ (Total(consts) > HexCount(consts.MAP_SIZE)) => ~config.present

\* C2: once generate_entities has run on an accepted configuration it has
\* emitted exactly n_ant Ant, n_plant Plant and n_fungi Fungi requests, every
\* emitted position lies in hexagon(center, map_size), and no position is
\* emitted twice, within a category or across categories; it never panics.
C2_EntitiesCountedInsideDistinct ==
    /\ "generate_entities" \in started => EntitiesDone
    /\ EntitiesDone =>
          LET ents == EntityRequests
              hex  == HexagonSet(Center, config.map_size)
          IN  /\ Len(PositionsOf("Ant")) = config.n_ant
              /\ Len(PositionsOf("Plant")) = config.n_plant
              /\ Len(PositionsOf("Fungi")) = config.n_fungi
              /\ Len(ents) = config.n_ant + config.n_plant + config.n_fungi
              /\ \A i \in 1..Len(ents) : ents[i].position \in hex
              /\ \A i, j \in 1..Len(ents) :
                    i # j => ents[i].position # ents[j].position

\* C2 witness: generate_entities has emitted an Ant and a Plant.
C2_Witness ==
    /\ EntitiesDone
    /\ config.n_ant = 1
    /\ config.n_plant = 1
    /\ Len(EntityRequests) = 2

\* C3: every Tile request is emitted before the first entity request, and
\* generate_entities does not begin before generate_terrain has returned.
C3_TerrainBeforeEntities ==
    /\ "generate_entities" \in started => "generate_terrain" \in finished
    /\ \A j \in 1..Len(requests) :
          requests[j].category # "Tile" =>
             \A i \in (j + 1)..Len(requests) : requests[i].category # "Tile"

\* C3 witness: both systems have run and the log holds tiles and entities.
C3_Witness ==
    /\ "generate_terrain" \in finished
    /\ EntitiesDone
    /\ Len(PositionsOf("Tile")) > 0
    /\ Len(EntityRequests) > 0

\* C4: generate_terrain emits exactly one Tile request for each position of
\* hexagon(center, r) and no other, 3r^2 + 3r + 1 in all, each carrying its
\* position and a terrain type.
C4_OneTypedTilePerPosition ==
    "generate_terrain" \in finished =>
        LET tiles == SelectSeq(requests, LAMBDA q : q.category = "Tile")
        IN  /\ Len(tiles) = HexCount(config.map_size)
            /\ Range(PositionsOf("Tile")) = HexagonSet(Center, config.map_size)
            /\ \A i \in 1..Len(tiles) : tiles[i].terrain_type \in TerrainTypes

\* C6: for a map radius <= 0 construction fails, and neither startup system
\* begins or emits a request.
C6_NonPositiveRadiusRejectedAtConstruction ==
    (consts.MAP_SIZE <= 0 /\ phase # "build") =>
        /\ ~config.present
        /\ started = {}
        /\ requests = <<>>

\* C8 as stated: the first n_ant drawn positions become Ants, the next
\* n_plant Plants and the last n_fungi Fungi.
C8_GroupsFromTheFront ==
    EntitiesDone =>
        /\ PositionsOf("Ant") = SubSeq(drawn, 1, config.n_ant)
        /\ PositionsOf("Plant") =
              SubSeq(drawn, config.n_ant + 1, config.n_ant + config.n_plant)
        /\ PositionsOf("Fungi") =
              SubSeq(drawn, config.n_ant + config.n_plant + 1, Len(drawn))

\* C8 as amended: the drawn positions are split into contiguous groups taken
\* from the end: the last n_ant drawn positions become Ants, the n_plant
\* before them Plants and the first n_fungi Fungi, and none is left over.
C8_GroupsFromTheEnd ==
    EntitiesDone =>
        /\ Len(drawn) = config.n_ant + config.n_plant + config.n_fungi
        /\ PositionsOf("Fungi") = SubSeq(drawn, 1, config.n_fungi)
        /\ PositionsOf("Plant") =
              SubSeq(drawn, config.n_fungi + 1, config.n_fungi + config.n_plant)
        /\ PositionsOf("Ant") =
              SubSeq(drawn, config.n_fungi + config.n_plant + 1, Len(drawn))

\* C8 witness: two groups were cut from a draw of two positions.
C8_Witness ==
    /\ EntitiesDone
    /\ Len(drawn) = 2
    /\ Len(PositionsOf("Ant")) = 1
    /\ Len(PositionsOf("Plant")) + Len(PositionsOf("Fungi")) = 1

(***************************************************************************)
(* What the generation plugin does where C1, C4 and C6 fail (Spec).        *)
(***************************************************************************)
\* Construction succeeds exactly when the entity total is at most
\* MAP_SIZE * MAP_SIZE, whatever the sign of MAP_SIZE.
AcceptedIffWithinSquare ==
    phase # "build" =>
        (config.present <=> Total(consts) <= consts.MAP_SIZE * consts.MAP_SIZE)

\* generate_terrain emits one Tile request per position of the hexagon,
\* 3r^2 + 3r + 1 in all, each with its position and no terrain type.
TilesCoverHexagon ==
    "generate_terrain" \in finished =>
        LET tiles == SelectSeq(requests, LAMBDA q : q.category = "Tile")
        IN  /\ Len(tiles) = HexCount(config.map_size)
            /\ Range(PositionsOf("Tile")) = HexagonSet(Center, config.map_size)
            /\ \A i \in 1..Len(tiles) : tiles[i].terrain_type = NoTerrain

\* With a map radius <= 0 that passes construction, generate_terrain panics
\* before emitting anything and generate_entities never begins.
NonPositiveRadiusEmitsNothing ==
    consts.MAP_SIZE <= 0 =>
        /\ requests = <<>>
        /\ finished = {}
        /\ "generate_entities" \notin started
        /\ "generate_terrain" \in started => phase = "panicked"

(***************************************************************************)
(* Properties of TerrainType::choose_random (SpecTerrain).                 *)
(***************************************************************************)
NonNegative(w) == \A t \in DOMAIN w : w[t] >= 0

SomePositive(w) == \E t \in DOMAIN w : w[t] > 0

\* The weight the table gives a variant, an absent entry counting as 0.
TableWeight(w, t) == IF t \in DOMAIN w THEN w[t] ELSE 0

\* C5: over non-negative weights, choose_random returns Ok(v) only for a
\* variant v of strictly positive weight, and the all-zero error exactly when
\* no variant has a positive weight.
C5_OnlyPositiveWeightChosen ==
    (chosen # NoResult /\ NonNegative(weights)) =>
        /\ chosen.ok => TableWeight(weights, chosen.value) > 0
        /\ (chosen = Err("AllWeightsZero")) <=> ~SomePositive(weights)

\* C5 witness: with weights {Plain: 1, Impassable: 0, High: 0} the call
\* returned Plain.
C5_Witness ==
    /\ DOMAIN weights = TerrainTypes
    /\ weights["Plain"] = 1
    /\ weights["Impassable"] = 0
    /\ weights["High"] = 0
    /\ chosen = Ok("Plain")

(***************************************************************************)
(* Properties of MapGeometry (SpecGeometry).                               *)
(***************************************************************************)
\* 2 * x + 1, exactly (2 * x is even, so adding 1 carries nothing).
ExactDoublePlusOne(x) ==
    LET d == ExactDouble(x) IN Wide(d.carry, d.hi, d.lo + 1)

\* C7: for every u32 radius, MapGeometry::new succeeds without overflow and
\* its value has size() = (2r+1, 2r+1) = (diameter(), diameter()) and
\* center() = (r+1, r+1).
C7_NewExactForEveryU32 ==
    geometry.state # "none" =>
        /\ geometry.state = "value"
        /\ Widen(Size(geometry).x) = ExactDoublePlusOne(radius)
        /\ Widen(Size(geometry).y) = ExactDoublePlusOne(radius)
        /\ ~Diameter(geometry).overflow
        /\ Size(geometry).x = Diameter(geometry).value
        /\ Size(geometry).y = Diameter(geometry).value
        /\ Widen(GeometryCenter(geometry).x) = ExactSucc(radius)
        /\ Widen(GeometryCenter(geometry).y) = ExactSucc(radius)

\* C9: the geometry bounds the whole map: center() lies inside the grid, and
\* every axial coordinate within the radius, offset by center(), lands on a
\* grid coordinate (x, y) with 0 <= x < size.x and 0 <= y < size.y.
C9_GeometryBoundsTheMap ==
    (geometry.state = "value" /\ IsSmall(geometry.radius)) =>
        /\ GeometryCenter(geometry).x.lo < Size(geometry).x.lo
        /\ GeometryCenter(geometry).y.lo < Size(geometry).y.lo
        /\ tilePos.set =>
              /\ 0 <= tilePos.x /\ tilePos.x < Size(geometry).x.lo
              /\ 0 <= tilePos.y /\ tilePos.y < Size(geometry).y.lo

\* For a radius below 2^31 (2^32 - 1 for the center alone) nothing
\* overflows and the constructed value is exact.
NewExactBelowHalfRange ==
    (geometry.state # "none" /\ radius.hi < LimbBase \div 2) =>
        /\ geometry.state = "value"
        /\ Widen(Size(geometry).x) = ExactDoublePlusOne(radius)
        /\ Size(geometry).y = Size(geometry).x
        /\ Size(geometry).x = Diameter(geometry).value
        /\ ~Diameter(geometry).overflow
        /\ Widen(GeometryCenter(geometry).x) = ExactSucc(radius)
        /\ GeometryCenter(geometry).y = GeometryCenter(geometry).x

(***************************************************************************)
(* Properties of the asset-loading check (SpecAssets).                     *)
(***************************************************************************)
\* The check exits exactly when every recorded state is Loaded, and a
\* recorded state other than NotLoaded is never refreshed.
RecordedStateLatched ==
    /\ [](appState = "exited" => AllLoaded(font_handles))
    /\ [][\A f \in DOMAIN font_handles :
            font_handles[f] # "NotLoaded" =>
               (f \in DOMAIN font_handles' /\ font_handles'[f] = font_handles[f])]_vars

\* C10: if the asset server has answered Loaded for every font from some
\* frame before the timeout onward, the run does not end in the
\* "Timed out waiting for assets to load." panic.
C10_LoadedInTimeNeverPanics ==
    loadedInTime => appState # "panicked"

====
